---------------------------- MODULE Spec2Model ----------------------------
(***************************************************************************)
(* Model of palantir: the generic tree container (tree.go), the            *)
(* filesystem tree builder (filesystem_tree.go), the tree renderer with    *)
(* the filesystem styler, the document tree builder, and the terminal      *)
(* output handler (terminal/output.go).                                    *)
(*                                                                         *)
(* Representation choices.                                                 *)
(*  - A tree is an arena: a sequence of Node records; node 1 is the root,  *)
(*    a node's index is its identity (the Go pointer), indices grow in     *)
(*    creation order, Parent = 0 is the nil parent, and the empty arena    *)
(*    << >> is the nil tree a failed Build returns.                        *)
(*  - A Go string that is produced by concatenation is a sequence of       *)
(*    chunks, and concatenation is \o.  The box-drawing glyphs are written *)
(*    with ASCII stand-ins: "|-- " (mid-sequence), "+-- " (last),          *)
(*    "|   " (vertical-bar continuation), "    " (blank continuation).     *)
(*  - Go's byte-wise string "<" is StrLess, over the finite universe of    *)
(*    names listed in NameOrder in byte order.                             *)
(***************************************************************************)
EXTENDS Naturals, Integers, Sequences, FiniteSets, TLC

VARIABLES tree, ret, hist, fs, configs, handlers, global, held, term

vars == <<tree, ret, hist, fs, configs, handlers, global, held, term>>

\* the output handlers: the OutputConfig objects (a pointer is an index), the
\* configuration each handler points to, the global handler, the objects the
\* caller holds a pointer to, and the TERM variable of the environment
outVars == <<configs, handlers, global, held, term>>

(***************************************************************************)
(* Bounds.                                                                 *)
(***************************************************************************)
MaxHandlers == 3
MaxCallerConfigs == 1

MaxInserts == 2
MaxPathLen == 2
MaxEntries == 4
MaxFSDepth == 2
MaxDocNodes == 4

(***************************************************************************)
(* Strings.                                                                *)
(***************************************************************************)
\* every name of the model, in Go's byte order
\* ('.' < 'a' < 'b' < 'd' < 'f' < 'l' < 'r' < 't')
NameOrder ==
    << "", ".hidden", "a", "b", "dirA", "file1.txt", "file2.txt", "file3.txt",
       "locked", "root", "tmp" >>

RECURSIVE IndexOf(_, _, _)
IndexOf(seq, x, i) ==
    IF i > Len(seq) THEN 0
    ELSE IF seq[i] = x THEN i ELSE IndexOf(seq, x, i + 1)

NameRank == [n \in { NameOrder[i] : i \in 1..Len(NameOrder) } |-> IndexOf(NameOrder, n, 1)]

\* a < b on Go strings
StrLess(a, b) == NameRank[a] < NameRank[b]

\* the bytes of a name; a name without a dot is kept as one chunk
Chars(name) ==
    CASE name = "" -> << >>
      [] name = "main.go" -> << "m", "a", "i", "n", ".", "g", "o" >>
      [] name = "README.md" -> << "R", "E", "A", "D", "M", "E", ".", "m", "d" >>
      [] name = "notes.txt" -> << "n", "o", "t", "e", "s", ".", "t", "x", "t" >>
      [] name = "app.log" -> << "a", "p", "p", ".", "l", "o", "g" >>
      [] name = "config.json" -> << "c", "o", "n", "f", "i", "g", ".", "j", "s", "o", "n" >>
      [] name = "config.yaml" -> << "c", "o", "n", "f", "i", "g", ".", "y", "a", "m", "l" >>
      [] name = "ci.yml" -> << "c", "i", ".", "y", "m", "l" >>
      [] name = "Cargo.toml" -> << "C", "a", "r", "g", "o", ".", "t", "o", "m", "l" >>
      [] name = "script.sh" -> << "s", "c", "r", "i", "p", "t", ".", "s", "h" >>
      [] name = "rc.zsh" -> << "r", "c", ".", "z", "s", "h" >>
      [] name = "run.bash" -> << "r", "u", "n", ".", "b", "a", "s", "h" >>
      [] name = "DATA.JSON" -> << "D", "A", "T", "A", ".", "J", "S", "O", "N" >>
      [] name = "Main.Go" -> << "M", "a", "i", "n", ".", "G", "o" >>
      [] name = "unknown.xyz" -> << "u", "n", "k", "n", "o", "w", "n", ".", "x", "y", "z" >>
      [] name = "data.xml" -> << "d", "a", "t", "a", ".", "x", "m", "l" >>
      [] name = "archive.tar.gz" -> << "a", "r", "c", "h", "i", "v", "e", ".", "t", "a", "r", ".", "g", "z" >>
      [] name = "v1.go.bak" -> << "v", "1", ".", "g", "o", ".", "b", "a", "k" >>
      [] name = "trailing." -> << "t", "r", "a", "i", "l", "i", "n", "g", "." >>
      [] name = ".gitignore" -> << ".", "g", "i", "t", "i", "g", "n", "o", "r", "e" >>
      [] name = ".bashrc" -> << ".", "b", "a", "s", "h", "r", "c" >>
      [] name = ".cfg.yml" -> << ".", "c", "f", "g", ".", "y", "m", "l" >>
      [] name = ".json" -> << ".", "j", "s", "o", "n" >>
      [] name = ".go" -> << ".", "g", "o" >>
      [] name = ".hidden" -> << ".", "h", "i", "d", "d", "e", "n" >>
      [] name = "file1.txt" -> << "f", "i", "l", "e", "1", ".", "t", "x", "t" >>
      [] name = "file2.txt" -> << "f", "i", "l", "e", "2", ".", "t", "x", "t" >>
      [] name = "file3.txt" -> << "f", "i", "l", "e", "3", ".", "t", "x", "t" >>
      [] OTHER -> << name >>

\* strings.HasPrefix(name, "."): the first byte is a dot
HasDotPrefix(name) == Chars(name) # << >> /\ Head(Chars(name)) = "."

(***************************************************************************)
(* FileNode and Node.                                                      *)
(***************************************************************************)
\* Path, Size and ModTime are carried but never read by the tree engine
NewFileNode(name, isDir) == [Name |-> name, IsDir |-> isDir]

\* var zero T, for T = FileNode
ZeroFileNode == [Name |-> "", IsDir |-> FALSE]

NewNode(name, data) ==
    [Data |-> data, Name |-> name, Children |-> << >>, Parent |-> 0]


\* an AddChild that appends the child and leaves its Parent nil
AddChildKeepingParent(t, n, child) ==
    Append([t EXCEPT ![n].Children = Append(@, Len(t) + 1)], child)

\* n.AddChild(child): child.Parent = n; n.Children = append(n.Children, child)
AddChild(t, n, child) ==
    Append([t EXCEPT ![n].Children = Append(@, Len(t) + 1)],
           [child EXCEPT !.Parent = n])

RECURSIVE FirstNamed(_, _, _, _)
FirstNamed(t, kids, name, i) ==
    IF i > Len(kids) THEN 0
    ELSE IF t[kids[i]].Name = name THEN kids[i]
    ELSE FirstNamed(t, kids, name, i + 1)

RECURSIVE LastNamed(_, _, _, _)
LastNamed(t, kids, name, i) ==
    IF i < 1 THEN 0
    ELSE IF t[kids[i]].Name = name THEN kids[i]
    ELSE LastNamed(t, kids, name, i - 1)

RECURSIVE FirstDataNamed(_, _, _, _)
FirstDataNamed(t, kids, name, i) ==
    IF i > Len(kids) THEN 0
    ELSE IF t[kids[i]].Data.Name = name THEN kids[i]
    ELSE FirstDataNamed(t, kids, name, i + 1)

FindChildLast(t, n, name) == LastNamed(t, t[n].Children, name, Len(t[n].Children))

FindChildByDataName(t, n, name) == FirstDataNamed(t, t[n].Children, name, 1)

\* n.FindChild(name): the first child named name, 0 when there is none
FindChild(t, n, name) == FirstNamed(t, t[n].Children, name, 1)

IsLeaf(t, n) == Len(t[n].Children) = 0

RECURSIVE Depth(_, _)
Depth(t, n) == IF t[n].Parent = 0 THEN 0 ELSE 1 + Depth(t, t[n].Parent)

RECURSIVE Path(_, _)
Path(t, n) ==
    IF t[n].Parent = 0 THEN << t[n].Name >>
    ELSE Append(Path(t, t[n].Parent), t[n].Name)

\* NewTree(rootData, rootName)
NewTree(rootData, rootName) == << NewNode(rootName, rootData) >>

Root(t) == 1

(***************************************************************************)
(* Insert, Find, Traverse, Size.                                           *)
(***************************************************************************)
\* a walk that would overwrite a same-named final node instead of appending
RECURSIVE InsertWalkReuse(_, _, _, _)
InsertWalkReuse(t, current, path, data) ==
    LET child == FindChild(t, current, path[1])
    IN  IF Len(path) = 1
        THEN IF child = 0 THEN AddChild(t, current, NewNode(path[1], data))
             ELSE [t EXCEPT ![child].Data = data]
        ELSE IF child = 0
             THEN LET t2 == AddChild(t, current, NewNode(path[1], ZeroFileNode))
                  IN  InsertWalkReuse(t2, Len(t2), Tail(path), data)
             ELSE InsertWalkReuse(t, child, Tail(path), data)

\* the loop of Insert over path[:len(path)-1], then the final AddChild
RECURSIVE InsertWalk(_, _, _, _)
InsertWalk(t, current, path, data) ==
    IF Len(path) = 1
    THEN AddChild(t, current, NewNode(path[1], data))
    ELSE LET child == FindChild(t, current, path[1])
         IN  IF child = 0
             THEN LET t2 == AddChild(t, current, NewNode(path[1], ZeroFileNode))
                  IN  InsertWalk(t2, Len(t2), Tail(path), data)
             ELSE InsertWalk(t, child, Tail(path), data)

InsertNoCheck(t, path, data) ==
    IF Len(path) = 0
    THEN [tree |-> AddChild(t, Root(t), NewNode("", data)), err |-> TRUE]
    ELSE [tree |-> InsertWalk(t, Root(t), path, data), err |-> FALSE]

\* t.Insert(path, data): the tree afterwards and whether an error is returned
Insert(t, path, data) ==
    IF Len(path) = 0
    THEN [tree |-> t, err |-> TRUE]
    ELSE [tree |-> InsertWalk(t, Root(t), path, data), err |-> FALSE]

RECURSIVE FindWalk(_, _, _)
FindWalk(t, current, path) ==
    IF Len(path) = 0 THEN current
    ELSE LET child == FindChild(t, current, path[1])
         IN  IF child = 0 THEN 0 ELSE FindWalk(t, child, Tail(path))

\* t.Find(path): the node reached (0 for nil) and the found flag
Find(t, path) ==
    LET n == FindWalk(t, Root(t), path)
    IN  [node |-> n, found |-> n # 0]

\* the nodes traverseNode visits with a visitor that always returns true
RECURSIVE PreOrder(_, _)
RECURSIVE PreOrderKids(_, _, _)
PreOrder(t, n) == << n >> \o PreOrderKids(t, t[n].Children, 1)
PreOrderKids(t, kids, i) ==
    IF i > Len(kids) THEN << >>
    ELSE PreOrder(t, kids[i]) \o PreOrderKids(t, kids, i + 1)

\* a traversal that descends whatever the visitor returns
RECURSIVE traverseNodeAlways(_, _, _)
RECURSIVE traverseAlwaysKids(_, _, _, _)
traverseNodeAlways(t, node, visitor) ==
    << node >> \o traverseAlwaysKids(t, t[node].Children, 1, visitor)
traverseAlwaysKids(t, kids, i, visitor) ==
    IF i > Len(kids) THEN << >>
    ELSE traverseNodeAlways(t, kids[i], visitor) \o traverseAlwaysKids(t, kids, i + 1, visitor)

\* t.traverseNode(node, visitor): the nodes the visitor is called with, in
\* order; visitor[n] is what the visitor returns for node n
RECURSIVE traverseNode(_, _, _)
RECURSIVE traverseKids(_, _, _, _)
traverseNode(t, node, visitor) ==
    << node >> \o (IF ~visitor[node] THEN << >>
                   ELSE traverseKids(t, t[node].Children, 1, visitor))
traverseKids(t, kids, i, visitor) ==
    IF i > Len(kids) THEN << >>
    ELSE traverseNode(t, kids[i], visitor) \o traverseKids(t, kids, i + 1, visitor)

\* t.Traverse(visitor)
Traverse(t, visitor) == traverseNode(t, Root(t), visitor)

\* t.Size(): the number of visitor calls of a full traversal
Size(t) == Len(PreOrder(t, Root(t)))

(***************************************************************************)
(* Sort.                                                                   *)
(***************************************************************************)
FilesFirstLess(a, b) ==
    IF a.Data.IsDir # b.Data.IsDir
    THEN b.Data.IsDir
    ELSE StrLess(a.Data.Name, b.Data.Name)

\* the comparator of getSortFunction: directories first, then by Data.Name
SortFunction(a, b) ==
    IF a.Data.IsDir # b.Data.IsDir
    THEN a.Data.IsDir
    ELSE StrLess(a.Data.Name, b.Data.Name)

\* the rearrangements of a slice
Rearrangements(s) ==
    { [i \in 1..Len(s) |-> s[f[i]]] :
        f \in { g \in [1..Len(s) -> 1..Len(s)] :
                  \A i, j \in 1..Len(s) : i # j => g[i] # g[j] } }

\* sort.Slice(kids, less): sort.Slice does not promise stability, so every
\* rearrangement that less leaves without an inversion is a possible result
SortSlice(t, kids) ==
    { p \in Rearrangements(kids) :
        \A i, j \in 1..Len(p) : i < j => ~SortFunction(t[p[j]], t[p[i]]) }

\* t.sortNode(node, comparator): the trees it can leave behind
RECURSIVE sortNode(_, _)
RECURSIVE sortChildren(_, _, _)
sortNode(t, node) ==
    IF Len(t[node].Children) = 0 THEN {t}
    ELSE UNION { sortChildren([t EXCEPT ![node].Children = p], p, 1) :
                   p \in SortSlice(t, t[node].Children) }
sortChildren(t, kids, i) ==
    IF i > Len(kids) THEN {t}
    ELSE UNION { sortChildren(t2, kids, i + 1) : t2 \in sortNode(t, kids[i]) }

\* t.Sort(comparator)
Sort(t) == sortNode(t, Root(t))

(***************************************************************************)
(* FileSystemStyler.                                                       *)
(***************************************************************************)
ColorReset == "ESC[0m"
ColorGreen == "ESC[32m"
ColorYellow == "ESC[33m"
ColorBlue == "ESC[34m"
ColorPurple == "ESC[35m"
ColorCyan == "ESC[36m"
ColorBold == "ESC[1m"
ColorRed == "ESC[31m"
ColorWhite == "ESC[37m"

ColorCodes ==
    {ColorReset, ColorRed, ColorGreen, ColorYellow, ColorBlue, ColorPurple, ColorCyan,
     ColorWhite, ColorBold}

\* filepath.Ext(name): the suffix that starts at the last dot, empty without a dot
RECURSIVE ExtFrom(_, _)
ExtFrom(chars, i) ==
    IF i = 0 THEN << >>
    ELSE IF chars[i] = "." THEN SubSeq(chars, i, Len(chars))
    ELSE ExtFrom(chars, i - 1)

Ext(name) == ExtFrom(Chars(name), Len(Chars(name)))

UpperCase == << "A", "B", "C", "D", "G", "J", "M", "N", "O", "R", "S", "T" >>
LowerCase == << "a", "b", "c", "d", "g", "j", "m", "n", "o", "r", "s", "t" >>

\* strings.ToLower(s), byte by byte
ToLower(chars) ==
    [i \in 1..Len(chars) |->
        LET k == IndexOf(UpperCase, chars[i], 1)
        IN  IF k = 0 THEN chars[i] ELSE LowerCase[k]]

\* an extension test that compares the extension as written
ExtAsWritten(name) == Ext(name)

\* strings.ToLower(filepath.Ext(name))
LowerExt(name) == ToLower(Ext(name))

JsonExts == { <<".", "j", "s", "o", "n">>, <<".", "y", "a", "m", "l">>,
              <<".", "y", "m", "l">>, <<".", "t", "o", "m", "l">> }
TextExts == { <<".", "m", "d">>, <<".", "t", "x", "t">>, <<".", "l", "o", "g">> }
ShellExts == { <<".", "s", "h">>, <<".", "z", "s", "h">>, <<".", "b", "a", "s", "h">> }
GoExts == { <<".", "g", "o">> }

\* a styler that colors whatever the configuration says
StyleIgnoringConfig(n, useColors) == << ColorBold, ColorBlue, n.Data.Name, ColorReset >>

\* s.Style(node)
Style(n, useColors) ==
    IF ~useColors THEN << n.Data.Name >>
    ELSE IF n.Data.IsDir THEN << ColorBold, ColorBlue, n.Data.Name, ColorReset >>
    ELSE LET ext == LowerExt(n.Data.Name)
         IN  CASE ext \in JsonExts ->
                    << ColorGreen, n.Data.Name, ColorReset >>
               [] ext \in TextExts ->
                    << ColorCyan, n.Data.Name, ColorReset >>
               [] ext \in ShellExts ->
                    << ColorYellow, n.Data.Name, ColorReset >>
               [] ext \in GoExts -> << ColorPurple, n.Data.Name, ColorReset >>
               [] OTHER -> << n.Data.Name >>

TreeCharLast == "+-- "
TreeCharMid == "|-- "
BlankFragment == "    "
BarFragment == "|   "

GetTreeCharSwapped(isLast) == IF isLast THEN TreeCharMid ELSE TreeCharLast

\* s.GetTreeChar(node, isLast)
GetTreeChar(isLast) == IF isLast THEN TreeCharLast ELSE TreeCharMid

\* s.GetPrefix(node, isLast, isRoot)
GetPrefix(isLast, isRoot) ==
    IF isRoot THEN << >>
    ELSE IF isLast THEN << BlankFragment >> ELSE << BarFragment >>

(***************************************************************************)
(* TreeRendererImpl.                                                       *)
(***************************************************************************)
\* r.isDirectory(node), for a tree of FileNode
isDirectory(n) == n.Data.IsDir

\* fmt.Fprintf(writer, "%s%s%s\n", prefix, treeChar, styledName)
Line(prefix, treeChar, styledName) == prefix \o << treeChar >> \o styledName \o << "\n" >>

\* r.renderNode(node, writer, prefix, isLast, isRoot): the lines written
RECURSIVE renderNode(_, _, _, _, _, _)
RECURSIVE renderChildren(_, _, _, _, _)
renderNode(t, node, prefix, isLast, isRoot, useColors) ==
    (IF ~isRoot
     THEN << Line(prefix, GetTreeChar(isLast), Style(t[node], useColors)) >>
     ELSE << >>)
    \o renderChildren(t, node, 1, isRoot, useColors)
renderChildren(t, node, i, isRoot, useColors) ==
    IF i > Len(t[node].Children) THEN << >>
    ELSE LET isChildLast == i = Len(t[node].Children)
             childPrefix == GetPrefix(isChildLast, isRoot)
         IN  renderNode(t, t[node].Children[i], childPrefix, isChildLast, FALSE, useColors)
             \o renderChildren(t, node, i + 1, isRoot, useColors)

\* the test of Render for "no hierarchy needed"
Suppressed(t) ==
    /\ Len(t[Root(t)].Children) = 1
    /\ ~isDirectory(t[t[Root(t)].Children[1]])

\* r.Render(tree, writer): the lines written to the writer
Render(t, useColors) ==
    IF Suppressed(t) THEN << >>
    ELSE renderNode(t, Root(t), << >>, TRUE, TRUE, useColors)

(***************************************************************************)
(* Document values and the document tree builder (ParseYAMLToTree).        *)
(*                                                                         *)
(* A value is what yaml.Unmarshal stores in an interface{}: nil, a string, *)
(* an int, a float64, a bool, a []interface{} or a map[string]interface{}. *)
(* Every value is a record of one shape; elems holds the items of a        *)
(* sequence (key "") or the entries of a mapping, in key order.            *)
(***************************************************************************)
YScalar(kind, str, num, bool) ==
    [kind |-> kind, str |-> str, num |-> num, bool |-> bool, elems |-> << >>]
YNull == YScalar("null", "", 0, FALSE)
YString(s) == YScalar("string", s, 0, FALSE)
YInt(n) == YScalar("int", "", n, FALSE)
\* a float64, held in tenths
YFloat(tenths) == YScalar("float", "", tenths, FALSE)
YBool(b) == YScalar("bool", "", 0, b)
YSeq(items) ==
    [kind |-> "sequence", str |-> "", num |-> 0, bool |-> FALSE,
     elems |-> [i \in 1..Len(items) |-> [key |-> "", val |-> items[i]]]]
YMap(entries) ==
    [kind |-> "mapping", str |-> "", num |-> 0, bool |-> FALSE, elems |-> entries]

Scalars == { YNull, YString("x"), YInt(42), YFloat(15), YBool(TRUE) }
Keys == << "a", "b" >>

\* the values with exactly n nodes, and the item lists with n nodes in all
RECURSIVE DocsOfSize(_)
RECURSIVE ItemsOfSize(_)
RECURSIVE EntriesOfSize(_, _)
DocsOfSize(n) ==
    IF n < 1 THEN {}
    ELSE (IF n = 1 THEN Scalars ELSE {})
         \cup { YSeq(items) : items \in ItemsOfSize(n - 1) }
         \cup { YMap(entries) : entries \in EntriesOfSize(n - 1, 1) }
ItemsOfSize(n) ==
    IF n = 0 THEN { << >> }
    ELSE UNION { { << d >> \o rest : d \in DocsOfSize(k), rest \in ItemsOfSize(n - k) } :
                 k \in 1..n }
\* entries with keys Keys[from..] in key order, n nodes in all
EntriesOfSize(n, from) ==
    IF n = 0 THEN { << >> }
    ELSE IF from > Len(Keys) THEN {}
    ELSE EntriesOfSize(n, from + 1)
         \cup UNION { { << [key |-> Keys[from], val |-> d] >> \o rest :
                          d \in DocsOfSize(k), rest \in EntriesOfSize(n - k, from + 1) } :
                      k \in 1..n }

Docs == UNION { DocsOfSize(n) : n \in 1..MaxDocNodes }

\* the bytes handed to ParseYAMLToTree: malformed, or the text of a value
Malformed == [ok |-> FALSE, doc |-> YNull]
TextOf(doc) == [ok |-> TRUE, doc |-> doc]
Contents == { Malformed } \cup { TextOf(d) : d \in Docs }

\* yaml.Unmarshal(yamlContent, &data)
Unmarshal(content) == [err |-> ~content.ok, data |-> content.doc]

\* fmt.Sprintf("%v", itemValue) for the numbers of the model
NumberText(v) ==
    CASE v = YInt(42) -> "42"
      [] v = YFloat(15) -> "1.5"
      [] OTHER -> "?"

\* fmt.Sprintf("%t", itemValue)
BoolText(b) == IF b THEN "true" ELSE "false"

\* fmt.Sprintf("[%d]", i), i counted from 0
IndexLabels == << "[0]", "[1]", "[2]", "[3]", "[4]", "[5]" >>
IndexLabel(i) == IndexLabels[i + 1]

IsComplex(v) == v.kind \in {"mapping", "sequence"}

ItemNameByIndex(item, i) == IndexLabel(i)

\* the switch that names an array item
ItemName(item, i) ==
    CASE item.kind = "string" -> item.str
      [] item.kind \in {"int", "float"} -> NumberText(item)
      [] item.kind = "bool" -> BoolText(item.bool)
      [] OTHER -> IndexLabel(i)

YAMLNode(name, value, isDir, nodeType) ==
    [Name |-> name, Value |-> value, IsDir |-> isDir, NodeType |-> nodeType]

\* &TreeNode{Name: name, Data: data, Children: nil}
TreeNode(name, data) == [Name |-> name, Data |-> data, Children |-> << >>]

\* node.Children = append(node.Children, child), child being a new node
AppendChild(t, n, child) ==
    Append([t EXCEPT ![n].Children = Append(@, Len(t) + 1)], child)

\* buildYAMLTree(node, data): the trees it can leave behind.  The entries of
\* a map are ranged over in an order Go does not specify
RECURSIVE buildYAMLTree(_, _, _)
RECURSIVE buildEntries(_, _, _, _)
RECURSIVE buildItems(_, _, _, _)
buildYAMLTree(t, node, data) ==
    CASE data.kind = "mapping" ->
             UNION { buildEntries(t, node, order, 1) : order \in Rearrangements(data.elems) }
      [] data.kind = "sequence" -> buildItems(t, node, data.elems, 1)
      [] OTHER ->
             { [t EXCEPT ![node].Data = YAMLNode(t[node].Name, data, FALSE, "scalar")] }
buildEntries(t, node, entries, i) ==
    IF i > Len(entries) THEN {t}
    ELSE LET key == entries[i].key
             value == entries[i].val
             t2 == AppendChild(t, node, TreeNode(key, YAMLNode(key, value, TRUE, "object")))
         IN  UNION { buildEntries(t3, node, entries, i + 1) :
                       t3 \in buildYAMLTree(t2, Len(t2), value) }
buildItems(t, node, items, i) ==
    IF i > Len(items) THEN {t}
    ELSE LET item == items[i].val
             itemName == ItemName(item, i - 1)
             t2 == AppendChild(t, node,
                               TreeNode(itemName, YAMLNode(itemName, item, FALSE, "array")))
         IN  IF IsComplex(item)
             THEN UNION { buildItems(t3, node, items, i + 1) :
                            t3 \in buildYAMLTree(t2, Len(t2), item) }
             ELSE buildItems(t2, node, items, i + 1)

\* ParseYAMLToTree(yamlContent): the (root, error) pairs it can return; the
\* nil root is << >>; built counts the nodes constructed during the call
ParseYAMLToTree(content) ==
    LET u == Unmarshal(content)
    IN  IF u.err THEN { [root |-> << >>, err |-> TRUE, built |-> 0] }
        ELSE LET root == << TreeNode("root", YAMLNode("root", u.data, TRUE, "object")) >>
             IN  { [root |-> t, err |-> FALSE, built |-> Len(t)] :
                     t \in buildYAMLTree(root, 1, u.data) }


(***************************************************************************)
(* The terminal output handler (terminal/output.go).                       *)
(*                                                                         *)
(* An OutputConfig is a record of its six flags; the handler keeps a       *)
(* pointer to one.  Text is a sequence of chunks; the emoji are written    *)
(* with stand-ins in parentheses.                                          *)
(***************************************************************************)
LevelInfo == 0
LevelWarning == 1
LevelError == 2
LevelSuccess == 3
LevelStage == 4
LevelHeader == 5

Levels == {LevelInfo, LevelWarning, LevelError, LevelSuccess, LevelStage, LevelHeader}

EmojiWrench == "(wrench)"
EmojiCheck == "(check mark)"
EmojiCross == "(cross mark)"
EmojiWarning == "(warning sign)"
EmojiBlueHeart == "(blue heart)"

Emojis == {EmojiWrench, EmojiCheck, EmojiCross, EmojiWarning, EmojiBlueHeart}

\* outputColors[level]; the empty string is << >>
outputColors(level) ==
    CASE level = LevelHeader -> << ColorCyan >>
      [] level = LevelStage -> << ColorBlue >>
      [] level = LevelSuccess -> << ColorGreen >>
      [] level = LevelError -> << ColorRed >>
      [] level = LevelWarning -> << ColorYellow >>
      [] OTHER -> << >>

\* outputEmojis[level]
outputEmojis(level) ==
    CASE level = LevelStage -> << EmojiWrench, " " >>
      [] level = LevelSuccess -> << EmojiCheck, " " >>
      [] level = LevelError -> << EmojiCross, " " >>
      [] level = LevelWarning -> << EmojiWarning, "  " >>
      [] OTHER -> << >>

\* outputPrefixes[level], for the levels that are not headers
outputPrefixes(level) ==
    CASE level = LevelStage -> << "[STAGE] " >>
      [] level = LevelSuccess -> << "[SUCCESS] " >>
      [] level = LevelError -> << "[ERROR] " >>
      [] level = LevelWarning -> << "[WARNING] " >>
      [] OTHER -> << >>

\* fmt.Sprintf(coloredHeaderFormat, bold, color, message, reset)
coloredHeaderFormat(bold, color, message, reset) ==
    << "\n", bold >> \o color \o << "=== " >> \o message \o << " ===", reset, "\n" >>

\* fmt.Sprintf(headerFormat, message)
headerFormat(message) == << "\n", "=== " >> \o message \o << " ===", "\n" >>

OutputConfig(useColors, useEmojis, useFormatting, disableOutput, verboseMode, colorizeLevelOnly) ==
    [UseColors |-> useColors, UseEmojis |-> useEmojis, UseFormatting |-> useFormatting,
     DisableOutput |-> disableOutput, VerboseMode |-> verboseMode,
     ColorizeLevelOnly |-> colorizeLevelOnly]

\* the configuration NewDefaultOutputHandler allocates
DefaultConfig == OutputConfig(TRUE, TRUE, TRUE, FALSE, FALSE, FALSE)

\* oh.IsSupported(): os.Getenv("TERM") != "dumb"
IsSupported(termEnv) == termEnv # "dumb"

\* a FormatMessage that formats whatever the terminal is
FormatMessageAnyTerminal(c, termEnv, level, message) ==
    IF c.DisableOutput THEN << >>
    ELSE IF level = LevelHeader
    THEN IF c.UseColors
         THEN coloredHeaderFormat(ColorBold, outputColors(level), message, ColorReset)
         ELSE headerFormat(message)
    ELSE LET allOn == c.UseColors /\ c.UseEmojis /\ c.UseFormatting
             prefix == IF allOn THEN outputEmojis(level) ELSE outputPrefixes(level)
             color == IF c.UseColors THEN outputColors(level) ELSE << >>
         IN  IF c.UseColors /\ c.UseFormatting
             THEN << ColorBold >> \o color \o prefix \o message \o << ColorReset, "\n" >>
             ELSE prefix \o message \o << "\n" >>

\* oh.FormatMessage(level, message)
FormatMessage(c, termEnv, level, message) ==
    IF c.DisableOutput THEN << >>
    ELSE IF ~IsSupported(termEnv) THEN message
    ELSE IF level = LevelHeader
    THEN IF c.UseColors
         THEN coloredHeaderFormat(ColorBold, outputColors(level), message, ColorReset)
         ELSE headerFormat(message)
    ELSE LET allOn == c.UseColors /\ c.UseEmojis /\ c.UseFormatting
             prefix == IF allOn THEN outputEmojis(level) ELSE outputPrefixes(level)
             color == IF allOn \/ c.UseColors THEN outputColors(level) ELSE << >>
         IN  IF c.UseColors /\ c.UseFormatting
             THEN IF c.ColorizeLevelOnly /\ color # << >> /\ prefix # << >>
                  THEN << ColorBold >> \o color \o prefix \o << ColorReset >>
                          \o message \o << "\n" >>
                  ELSE << ColorBold >> \o color \o prefix \o message
                          \o << ColorReset, "\n" >>
             ELSE prefix \o message \o << "\n" >>

\* generateExpectedOutput(level, message, config) of the tests
generateExpectedOutput(level, message, c, termEnv) ==
    IF c.DisableOutput THEN << >>
    ELSE IF termEnv = "dumb" THEN message
    ELSE LET allOn == c.UseColors /\ c.UseEmojis /\ c.UseFormatting
             prefix == IF allOn THEN outputEmojis(level) ELSE outputPrefixes(level)
             color == IF allOn \/ c.UseColors THEN outputColors(level) ELSE << >>
         IN  IF level = LevelHeader
             THEN IF allOn \/ c.UseColors
                  THEN coloredHeaderFormat(ColorBold, color, message, ColorReset)
                  ELSE headerFormat(message)
             ELSE IF c.UseColors /\ c.UseFormatting
             THEN << ColorBold >> \o color \o prefix \o message \o << ColorReset, "\n" >>
             ELSE prefix \o message \o << "\n" >>

\* oh.PrintWithLevel(level, format): what reaches standard output.  The
\* messages of the model hold no formatting verb, so fmt.Sprintf(format) is
\* the message
PrintWithLevel(c, termEnv, level, message) ==
    IF c.DisableOutput THEN << >> ELSE FormatMessage(c, termEnv, level, message)

PrintHeader(c, termEnv, message) == PrintWithLevel(c, termEnv, LevelHeader, message)
PrintStage(c, termEnv, message) == PrintWithLevel(c, termEnv, LevelStage, message)
PrintSuccess(c, termEnv, message) == PrintWithLevel(c, termEnv, LevelSuccess, message)
PrintError(c, termEnv, message) == PrintWithLevel(c, termEnv, LevelError, message)
PrintWarning(c, termEnv, message) == PrintWithLevel(c, termEnv, LevelWarning, message)
PrintInfo(c, termEnv, message) == PrintWithLevel(c, termEnv, LevelInfo, message)

\* the Print method of each level
PrintLevel(c, termEnv, level, message) ==
    CASE level = LevelHeader -> PrintHeader(c, termEnv, message)
      [] level = LevelStage -> PrintStage(c, termEnv, message)
      [] level = LevelSuccess -> PrintSuccess(c, termEnv, message)
      [] level = LevelError -> PrintError(c, termEnv, message)
      [] level = LevelWarning -> PrintWarning(c, termEnv, message)
      [] OTHER -> PrintInfo(c, termEnv, message)

\* a PrintAlreadyAvailable that shows the emoji whenever emojis are enabled
PrintAlreadyAvailableEmojiFirst(c, message) ==
    IF c.DisableOutput THEN << >>
    ELSE LET prefix == IF c.UseEmojis /\ c.UseFormatting
                       THEN << EmojiBlueHeart, " " >> ELSE << "[AVAILABLE] " >>
         IN  IF c.UseColors
             THEN << ColorBold, ColorBlue >> \o prefix \o message \o << ColorReset, "\n" >>
             ELSE prefix \o message \o << "\n" >>

\* oh.PrintAlreadyAvailable(format)
PrintAlreadyAvailable(c, message) ==
    IF c.DisableOutput THEN << >>
    ELSE IF c.UseColors
    THEN LET prefix == IF c.UseEmojis /\ c.UseFormatting
                       THEN << EmojiBlueHeart, " " >> ELSE << "[AVAILABLE] " >>
         IN  IF c.ColorizeLevelOnly
             THEN << ColorBold, ColorBlue >> \o prefix \o << ColorReset >>
                     \o message \o << "\n" >>
             ELSE << ColorBold, ColorBlue >> \o prefix \o message \o << ColorReset, "\n" >>
    ELSE << "[AVAILABLE] " >> \o message \o << "\n" >>

\* %d and %.0f of a small whole number
DecimalText(n) ==
    CASE n = 0 -> "0" [] n = 1 -> "1" [] n = 2 -> "2" [] n = 4 -> "4"
      [] n = 25 -> "25" [] n = 50 -> "50" [] n = 75 -> "75" [] n = 100 -> "100"

\* "[%d/%d] %.0f%% - ", for a total that divides 100 * current
progressPrefix(current, total) ==
    << "[", DecimalText(current), "/", DecimalText(total), "] ",
       DecimalText((100 * current) \div total), "% - " >>

\* a PrintProgress that does not look at DisableOutput
PrintProgressWhileDisabled(c, current, total, message) ==
    << "\r" >> \o progressPrefix(current, total) \o message \o << "\n" >>

\* oh.PrintProgress(current, total, message)
PrintProgress(c, current, total, message) ==
    IF c.DisableOutput THEN << >>
    ELSE IF c.UseColors /\ c.UseFormatting
    THEN IF c.ColorizeLevelOnly
         THEN << "\r", ColorBold, ColorCyan >> \o progressPrefix(current, total)
                 \o << ColorReset >> \o message \o << "\n" >>
         ELSE << "\r", ColorBold, ColorCyan >> \o progressPrefix(current, total)
                 \o message \o << ColorReset, "\n" >>
    ELSE << "\r" >> \o progressPrefix(current, total) \o message \o << "\n" >>

\* the prompt Confirm prints before it reads
confirmPrompt(c, message) ==
    IF c.UseColors /\ c.UseFormatting
    THEN IF c.ColorizeLevelOnly
         THEN << ColorBold, ColorYellow, "?", ColorReset, " " >> \o message
                 \o << " (y/N): " >>
         ELSE << ColorBold, ColorYellow, "? " >> \o message \o << " (y/N): ", ColorReset >>
    ELSE << "? " >> \o message \o << " (y/N): " >>

\* oh.Confirm(message) when the user answers response: what is written,
\* whether standard input is read, and the value returned
Confirm(c, message, response) ==
    IF c.DisableOutput
    THEN [written |-> << >>, readInput |-> FALSE, confirmed |-> FALSE]
    ELSE [written |-> confirmPrompt(c, message), readInput |-> TRUE,
          confirmed |-> response \in {"y", "Y", "yes", "Yes"}]

\* var globalOutputHandler = NewDefaultOutputHandler(): the state of the
\* package once it is loaded
InitOutput ==
    /\ configs = << DefaultConfig >>
    /\ handlers = << 1 >>
    /\ global = 1
    /\ held = {}

DefaultTerm == "xterm-256color"

(***************************************************************************)
(* The state machine of the tree container and the renderer.               *)
(***************************************************************************)
Names == {"a", "b"}

RECURSIVE PathsUpTo(_)
PathsUpTo(n) ==
    IF n = 0 THEN { << >> }
    ELSE LET shorter == PathsUpTo(n - 1)
         IN  shorter \cup { Append(p, s) : p \in { q \in shorter : Len(q) = n - 1 }, s \in Names }

Paths == PathsUpTo(MaxPathLen)

NoRet ==
    [op |-> "none", path |-> << >>, data |-> ZeroFileNode, err |-> FALSE,
     found |-> FALSE, node |-> 0, lines |-> << >>, useColors |-> FALSE,
     afterInsert |-> FALSE, insNode |-> 0, insData |-> ZeroFileNode,
     source |-> << >>, hasHierarchy |-> FALSE,
     visited |-> << >>, visitor |-> << >>,
     arg |-> [abs |-> TRUE, segs |-> << >>], built |-> 0,
     content |-> Malformed, root |-> << >>,
     handler |-> 0, level |-> 0, message |-> << >>, written |-> << >>,
     readInput |-> FALSE, confirmed |-> FALSE]

EmptyFS == [p \in {} |-> FALSE]

Init ==
    /\ tree = NewTree(NewFileNode("root", TRUE), "root")
    /\ ret = NoRet
    /\ hist = << >>
    /\ fs = EmptyFS
    /\ InitOutput
    /\ term = DefaultTerm

\* a caller inserts data whose Name is the final segment, as the builder does
DoInsert ==
    \E path \in Paths, isDir \in BOOLEAN :
        /\ tree # << >>
        /\ Len(path) = 0 \/ Len(hist) < MaxInserts
        /\ LET data == NewFileNode(IF Len(path) = 0 THEN "" ELSE path[Len(path)], isDir)
               r == Insert(tree, path, data)
           IN  /\ tree' = r.tree
               /\ ret' = [NoRet EXCEPT !.op = "Insert", !.path = path, !.data = data,
                                       !.err = r.err,
                                       !.node = IF r.err THEN 0 ELSE Len(r.tree)]
               /\ hist' = IF r.err THEN hist ELSE Append(hist, path)
               /\ UNCHANGED <<fs, outVars>>

\* a caller looks up a path; afterInsert records that it is the path just inserted
DoFind ==
    \E path \in Paths :
        LET r == Find(tree, path)
        IN  /\ tree # << >>
            /\ ret' = [NoRet EXCEPT !.op = "Find", !.path = path,
                                    !.found = r.found, !.node = r.node,
                                    !.afterInsert = (ret.op = "Insert" /\ ~ret.err /\ ret.path = path),
                                    !.insNode = ret.node, !.insData = ret.data]
            /\ UNCHANGED <<tree, hist, fs, outVars>>

DoSort ==
    /\ tree # << >>
    /\ tree' \in Sort(tree)
    /\ ret' = [NoRet EXCEPT !.op = "Sort"]
    /\ UNCHANGED <<hist, fs, outVars>>

DoRender ==
    \E useColors \in BOOLEAN :
        /\ tree # << >>
        /\ ret' = [NoRet EXCEPT !.op = "Render", !.useColors = useColors,
                                !.lines = Render(tree, useColors)]
        /\ UNCHANGED <<tree, hist, fs, outVars>>

\* a caller traverses with a visitor that returns false on the nodes of prune
DoTraverse ==
    \E prune \in SUBSET (1..Len(tree)) :
        LET visitor == [n \in 1..Len(tree) |-> n \notin prune]
        IN  /\ tree # << >>
            /\ ret' = [NoRet EXCEPT !.op = "Traverse", !.visitor = visitor,
                                    !.visited = Traverse(tree, visitor)]
            /\ UNCHANGED <<tree, hist, fs, outVars>>

Next == DoInsert \/ DoFind \/ DoSort \/ DoRender \/ DoTraverse

Spec == Init /\ [][Next]_vars

(***************************************************************************)
(* The filesystem and the filesystem tree builder.                         *)
(*                                                                         *)
(* fs maps the path of every entry below the temporary directory, as the   *)
(* sequence of its segments, to its is-directory flag; << >> is the        *)
(* temporary directory itself, which always exists.                        *)
(***************************************************************************)
TempDirName == "tmp"
\* a directory of this name has had its permissions removed (mode 000)
LockedDirName == "locked"
\* stands for the name "\x00invalid"
NulName == "^@invalid"
FSNames == {".hidden", "dirA", "file1.txt", "file2.txt", "file3.txt", LockedDirName}
\* the names the tests give to directories
DirNames == {".hidden", "dirA", "file1.txt", LockedDirName}

RECURSIVE FSPathsUpTo(_)
FSPathsUpTo(n) ==
    IF n = 0 THEN { << >> }
    ELSE LET shorter == FSPathsUpTo(n - 1)
         IN  shorter \cup { Append(p, s) : p \in { q \in shorter : Len(q) = n - 1 }, s \in FSNames }

FSPaths == FSPathsUpTo(MaxFSDepth) \ { << >> }

Front(path) == SubSeq(path, 1, Len(path) - 1)

\* filepath.Base(path)
Base(path) == IF Len(path) = 0 THEN TempDirName ELSE path[Len(path)]

\* a path string: absolute (segs below the temporary directory) or relative
\* to the working directory; the empty string is the relative path without segments
AbsPath(segs) == [abs |-> TRUE, segs |-> segs]
RelPath(segs) == [abs |-> FALSE, segs |-> segs]

\* filepath.Abs(source): an absolute path is returned cleaned, any other path,
\* the empty string included, is joined to the working directory (os.Getwd
\* is taken to succeed)
Abs(cwd, source) == IF source.abs THEN source.segs ELSE cwd \o source.segs

\* os.Stat(path) succeeds; a name with a NUL byte is in no directory
Exists(fsys, path) == path = << >> \/ path \in DOMAIN fsys
IsDirAt(fsys, path) == path = << >> \/ (path \in DOMAIN fsys /\ fsys[path])

\* reading the directory fails with a permission error
Unreadable(fsys, path) ==
    Len(path) > 0 /\ Base(path) = LockedDirName /\ IsDirAt(fsys, path)

\* the names a directory read returns, in filepath.Walk's lexical order
RECURSIVE Ascending(_)
Ascending(S) ==
    IF S = {} THEN << >>
    ELSE LET m == CHOOSE x \in S : \A y \in S : ~StrLess(y, x)
         IN  << m >> \o Ascending(S \ {m})

ReadDirNames(fsys, dir) ==
    Ascending({ p[Len(p)] : p \in { q \in DOMAIN fsys : Len(q) > 0 /\ Front(q) = dir } })

HiddenNever(path) == FALSE

\* the hidden-file test of the walk callback
Hidden(path) == HasDotPrefix(Base(path))

\* filepath.Walk(dirPath, callback) from path on: the paths for which the
\* callback of buildTreeRecursive goes on to Insert, in the order of the walk,
\* and whether the walk ends with an error.  The callback returns early on the
\* root; on a hidden entry it returns SkipDir for a directory (the walk does
\* not descend) and nil for a file; when a directory cannot be read the
\* callback is called again with the error and returns it, which ends the walk
RECURSIVE walk(_, _, _)
RECURSIVE walkEntries(_, _, _, _, _)

\* a walk that reports a directory after its entries
walkEntriesFirst(fsys, dirPath, path) ==
    IF path # dirPath /\ Hidden(path) THEN [paths |-> << >>, err |-> FALSE]
    ELSE LET here == IF path = dirPath THEN << >> ELSE << path >>
         IN  IF ~IsDirAt(fsys, path) THEN [paths |-> here, err |-> FALSE]
             ELSE IF Unreadable(fsys, path) THEN [paths |-> here, err |-> TRUE]
             ELSE LET r == walkEntries(fsys, dirPath, path, ReadDirNames(fsys, path), 1)
                  IN  [paths |-> r.paths \o here, err |-> r.err]

walk(fsys, dirPath, path) ==
    IF path # dirPath /\ Hidden(path) THEN [paths |-> << >>, err |-> FALSE]
    ELSE LET here == IF path = dirPath THEN << >> ELSE << path >>
         IN  IF ~IsDirAt(fsys, path) THEN [paths |-> here, err |-> FALSE]
             ELSE IF Unreadable(fsys, path) THEN [paths |-> here, err |-> TRUE]
             ELSE LET r == walkEntries(fsys, dirPath, path, ReadDirNames(fsys, path), 1)
                  IN  [paths |-> here \o r.paths, err |-> r.err]
walkEntries(fsys, dirPath, dir, names, i) ==
    IF i > Len(names) THEN [paths |-> << >>, err |-> FALSE]
    ELSE LET r == walk(fsys, dirPath, Append(dir, names[i]))
         IN  IF r.err THEN r
             ELSE LET rest == walkEntries(fsys, dirPath, dir, names, i + 1)
                  IN  [paths |-> r.paths \o rest.paths, err |-> rest.err]

\* the rest of the callback: the relative path is split into parts and the
\* entry's FileNode is inserted under them
RECURSIVE insertVisited(_, _, _, _, _)
insertVisited(fsys, dirPath, visited, i, t) ==
    IF i > Len(visited) THEN t
    ELSE LET path == visited[i]
             parts == SubSeq(path, Len(dirPath) + 1, Len(path))
             fileData == NewFileNode(Base(path), fsys[path])
             t2 == Insert(t, parts, fileData).tree
         IN  insertVisited(fsys, dirPath, visited, i + 1, t2)

\* b.buildTreeRecursive(tree, dirPath): the tree as the walk leaves it and the
\* error of the walk
buildTreeRecursive(fsys, t, dirPath) ==
    LET w == walk(fsys, dirPath, dirPath)
    IN  [tree |-> insertVisited(fsys, dirPath, w.paths, 1, t), err |-> w.err]


(***************************************************************************)
(* The legacy builder: buildTree on TreeNode, without Parent references.   *)
(***************************************************************************)
\* for _, child := range current.Children: child.Name == part && child.Data.IsDir
RECURSIVE FirstDirNamed(_, _, _, _)
FirstDirNamed(t, kids, part, i) ==
    IF i > Len(kids) THEN 0
    ELSE IF t[kids[i]].Name = part /\ t[kids[i]].Data.IsDir THEN kids[i]
    ELSE FirstDirNamed(t, kids, part, i + 1)

\* the loop over parts[:len(parts)-1]: the tree and the node it ends on
RECURSIVE findOrCreateParent(_, _, _, _)
findOrCreateParent(t, current, parts, i) ==
    IF i > Len(parts) - 1 THEN [tree |-> t, current |-> current]
    ELSE LET child == FirstDirNamed(t, t[current].Children, parts[i], 1)
         IN  IF child # 0 THEN findOrCreateParent(t, child, parts, i + 1)
             ELSE LET newDir == TreeNode(parts[i], NewFileNode(parts[i], TRUE))
                      t2 == AppendChild(t, current, newDir)
                  IN  findOrCreateParent(t2, Len(t2), parts, i + 1)

\* the callback of buildTree on the entries the walk reports
RECURSIVE addVisited(_, _, _, _, _)
addVisited(fsys, dirPath, visited, i, t) ==
    IF i > Len(visited) THEN t
    ELSE LET path == visited[i]
             parts == SubSeq(path, Len(dirPath) + 1, Len(path))
             r == findOrCreateParent(t, 1, parts, 1)
             finalNode == TreeNode(parts[Len(parts)], NewFileNode(Base(path), fsys[path]))
         IN  addVisited(fsys, dirPath, visited, i + 1,
                        AppendChild(r.tree, r.current, finalNode))

\* buildTree(node, dirPath), node being the root the legacy ShowHierarchy makes
buildTree(fsys, dirPath) ==
    LET root == TreeNode(Base(dirPath), NewFileNode(Base(dirPath), IsDirAt(fsys, dirPath)))
        w == walk(fsys, dirPath, dirPath)
    IN  [tree |-> addVisited(fsys, dirPath, w.paths, 1, << root >>), err |-> w.err]

\* a Build that hands back what the walk had built when it failed
BuildKeepingPartial(fsys, cwd, source) ==
    LET absPath == Abs(cwd, source)
    IN  IF ~Exists(fsys, absPath)
        THEN { [tree |-> << >>, err |-> TRUE, built |-> 0] }
        ELSE LET rootData == NewFileNode(Base(absPath), IsDirAt(fsys, absPath))
                 r == buildTreeRecursive(fsys, NewTree(rootData, Base(absPath)), absPath)
             IN  { [tree |-> r.tree, err |-> r.err, built |-> Len(r.tree)] }

\* b.Build(source): the (tree, error) pairs it can return; the nil tree is
\* << >>; built counts the nodes constructed during the call
Build(fsys, cwd, source) ==
    LET absPath == Abs(cwd, source)
    IN  IF ~Exists(fsys, absPath)
        THEN { [tree |-> << >>, err |-> TRUE, built |-> 0] }
        ELSE LET rootData == NewFileNode(Base(absPath), IsDirAt(fsys, absPath))
                 r == buildTreeRecursive(fsys, NewTree(rootData, Base(absPath)), absPath)
             IN  IF r.err
                 THEN { [tree |-> << >>, err |-> TRUE, built |-> Len(r.tree)] }
                 ELSE { [tree |-> s, err |-> FALSE, built |-> Len(s)] : s \in Sort(r.tree) }

ShowHierarchyAlwaysRenders(t) == FALSE

NoHierarchyForSingleChild(t) == Len(t[Root(t)].Children) = 1

\* the "no hierarchy needed" test of ShowHierarchy
NoHierarchyNeeded(t) ==
    /\ Len(t[Root(t)].Children) = 1
    /\ ~t[t[Root(t)].Children[1]].Data.IsDir

\* ShowHierarchy(basePath, targetDir): error, hasHierarchy and the lines on stdout
ShowHierarchy(fsys, cwd, basePath, useColors) ==
    { IF b.err THEN [err |-> TRUE, hasHierarchy |-> FALSE, lines |-> << >>]
      ELSE IF NoHierarchyNeeded(b.tree)
           THEN [err |-> FALSE, hasHierarchy |-> FALSE, lines |-> << >>]
           ELSE [err |-> FALSE, hasHierarchy |-> TRUE, lines |-> Render(b.tree, useColors)] :
      b \in Build(fsys, cwd, basePath) }

(***************************************************************************)
(* The state machine of the filesystem builder: a test run first fills the *)
(* temporary directory, then makes one call of Build or ShowHierarchy, and *)
(* may go on to Sort and Render the tree that Build returned.              *)
(***************************************************************************)
\* the paths the tests pass: the temporary directory, or an entry in it that
\* is a directory, a regular file or missing; the empty string; a relative
\* path with a NUL byte
Sources ==
    { AbsPath(<< >>) } \cup { AbsPath(<< n >>) : n \in DirNames }
        \cup { RelPath(<< >>), RelPath(<< NulName >>) }

\* the working directory of the process (os.Getwd): an existing directory,
\* taken to be the one the test fills
WorkingDir == << >>

InitFS ==
    /\ tree = << >>
    /\ ret = NoRet
    /\ hist = << >>
    /\ fs = EmptyFS
    /\ InitOutput
    /\ term = DefaultTerm

\* a rank that grows from a directory to its entries and along NameOrder
RECURSIVE PathRank(_)
PathRank(path) ==
    IF Len(path) = 0 THEN 0
    ELSE PathRank(Front(path)) * (Len(NameOrder) + 1) + NameRank[Base(path)]

\* the test fills the directory before its first call, one entry at a time,
\* parents first; what Build reads is the content, not the order of creation,
\* so the entries are created in the one order of PathRank
CanCreate(path) ==
    /\ ret.op = "none"
    /\ path \notin DOMAIN fs
    /\ Cardinality(DOMAIN fs) < MaxEntries
    /\ Len(path) > 1 => (IsDirAt(fs, Front(path)) /\ ~Unreadable(fs, Front(path)))
    /\ \A q \in DOMAIN fs : PathRank(q) < PathRank(path)

\* os.Mkdir
Mkdir ==
    \E path \in FSPaths :
        /\ CanCreate(path)
        /\ Base(path) \in DirNames
        /\ fs' = fs @@ (path :> TRUE)
        /\ UNCHANGED <<tree, ret, hist, outVars>>

\* os.WriteFile
WriteFile ==
    \E path \in FSPaths :
        /\ CanCreate(path)
        /\ Base(path) # LockedDirName
        /\ fs' = fs @@ (path :> FALSE)
        /\ UNCHANGED <<tree, ret, hist, outVars>>

DoBuild ==
    /\ ret.op = "none"
    /\ \E source \in Sources :
          \E b \in Build(fs, WorkingDir, source) :
              /\ tree' = b.tree
              /\ ret' = [NoRet EXCEPT !.op = "Build", !.arg = source,
                                      !.source = Abs(WorkingDir, source),
                                      !.err = b.err, !.built = b.built]
              /\ UNCHANGED <<hist, fs, outVars>>

DoShowHierarchy ==
    /\ ret.op = "none"
    /\ \E source \in Sources, useColors \in BOOLEAN :
          \E r \in ShowHierarchy(fs, WorkingDir, source, useColors) :
              /\ ret' = [NoRet EXCEPT !.op = "ShowHierarchy", !.arg = source,
                                      !.source = Abs(WorkingDir, source),
                                      !.useColors = useColors, !.err = r.err,
                                      !.hasHierarchy = r.hasHierarchy, !.lines = r.lines]
              /\ UNCHANGED <<tree, hist, fs, outVars>>

\* a document test: it fills no directory and makes one call
DoParseYAML ==
    /\ ret.op = "none"
    /\ fs = EmptyFS
    /\ \E content \in Contents :
          \E r \in ParseYAMLToTree(content) :
              /\ ret' = [NoRet EXCEPT !.op = "ParseYAML", !.content = content,
                                      !.root = r.root, !.err = r.err, !.built = r.built]
              /\ UNCHANGED <<tree, hist, fs, outVars>>

NextFS ==
    Mkdir \/ WriteFile \/ DoBuild \/ DoShowHierarchy \/ DoSort \/ DoRender \/ DoParseYAML

SpecFS == InitFS /\ [][NextFS]_vars

\* the document builder on its own
NextYAML == DoParseYAML

SpecYAML == InitFS /\ [][NextYAML]_vars


(***************************************************************************)
(* The styler on its own: one filesystem node, styled once.                *)
(***************************************************************************)
StyleNames ==
    { "main.go", "README.md", "notes.txt", "app.log", "config.json", "config.yaml",
      "ci.yml", "Cargo.toml", "script.sh", "rc.zsh", "run.bash", "DATA.JSON",
      "Main.Go", "unknown.xyz", "data.xml", "archive.tar.gz", "v1.go.bak",
      "trailing.", "dirA", "tmp", ".gitignore", ".bashrc", ".cfg.yml", ".json",
      ".go", ".hidden" }

\* a tree whose root has the one child to style; the configuration is in ret.useColors
InitStyle ==
    \E name \in StyleNames, isDir \in BOOLEAN, useColors \in BOOLEAN :
        /\ tree = Insert(NewTree(NewFileNode("root", TRUE), "root"),
                         << name >>, NewFileNode(name, isDir)).tree
        /\ ret = [NoRet EXCEPT !.useColors = useColors]
        /\ hist = << >>
        /\ fs = EmptyFS
        /\ InitOutput
        /\ term = DefaultTerm

\* s.Style(node) on the child of the root
DoStyle ==
    /\ ret.op = "none"
    /\ ret' = [NoRet EXCEPT !.op = "Style", !.useColors = ret.useColors, !.node = 2,
                            !.lines = << Style(tree[2], ret.useColors) >>]
    /\ UNCHANGED <<tree, hist, fs, outVars>>

NextStyle == DoStyle

SpecStyle == InitStyle /\ [][NextStyle]_vars


(***************************************************************************)
(* The state machine of the output handlers.                               *)
(***************************************************************************)
\* the OutputConfig literals a caller writes
CallerConfigs ==
    { OutputConfig(uc, ue, uf, d, FALSE, lo) : uc, ue, uf, d, lo \in BOOLEAN }

Messages == { << "Test" >> }

Responses == { "Yes", "n" }

ProgressSteps == { << 1, 2 >> }

StyledNodes ==
    { NewNode("dirA", NewFileNode("dirA", TRUE)),
      NewNode("main.go", NewFileNode("main.go", FALSE)) }

\* oh.config of handler h
ConfigOf(h) == configs[handlers[h]]

\* the process starts with the package loaded and TERM set by the environment
InitOut ==
    /\ tree = << >>
    /\ ret = NoRet
    /\ hist = << >>
    /\ fs = EmptyFS
    /\ InitOutput
    /\ term \in { DefaultTerm, "dumb" }

DoNewDefaultOutputHandler ==
    /\ Len(handlers) < MaxHandlers
    /\ configs' = Append(configs, DefaultConfig)
    /\ handlers' = Append(handlers, Len(configs) + 1)
    /\ ret' = [NoRet EXCEPT !.op = "NewDefaultOutputHandler", !.handler = Len(handlers) + 1]
    /\ UNCHANGED <<tree, hist, fs, global, held, term>>

\* NewOutputHandler(&config): the caller passes a pointer to a new OutputConfig
\* or the pointer it passed before; the handler stores the pointer
DoNewOutputHandler ==
    /\ Len(handlers) < MaxHandlers
    /\ \/ \E c \in CallerConfigs :
             /\ Cardinality(held) < MaxCallerConfigs
             /\ configs' = Append(configs, c)
             /\ held' = held \cup { Len(configs) + 1 }
             /\ handlers' = Append(handlers, Len(configs) + 1)
       \/ \E p \in held :
             /\ handlers' = Append(handlers, p)
             /\ UNCHANGED <<configs, held>>
    /\ ret' = [NoRet EXCEPT !.op = "NewOutputHandler", !.handler = Len(handlers) + 1]
    /\ UNCHANGED <<tree, hist, fs, global, term>>

DoSetGlobalOutputHandler ==
    \E h \in 1..Len(handlers) :
        /\ h # global
        /\ global' = h
        /\ ret' = [NoRet EXCEPT !.op = "SetGlobalOutputHandler", !.handler = h]
        /\ UNCHANGED <<tree, hist, fs, configs, handlers, held, term>>

\* oh.Disable(): oh.config.DisableOutput = true
DoDisable ==
    \E h \in 1..Len(handlers) :
        /\ configs' = [configs EXCEPT ![handlers[h]].DisableOutput = TRUE]
        /\ ret' = [NoRet EXCEPT !.op = "Disable", !.handler = h]
        /\ UNCHANGED <<tree, hist, fs, handlers, global, held, term>>

DoFormatMessage ==
    \E h \in 1..Len(handlers), level \in Levels, message \in Messages :
        /\ ret' = [NoRet EXCEPT !.op = "FormatMessage", !.handler = h, !.level = level,
                                !.message = message,
                                !.lines = << FormatMessage(ConfigOf(h), term, level, message) >>]
        /\ UNCHANGED <<tree, hist, fs, outVars>>

\* PrintHeader, PrintStage, PrintSuccess, PrintError, PrintWarning, PrintInfo
DoPrint ==
    \E h \in 1..Len(handlers), level \in Levels :
        /\ ret' = [NoRet EXCEPT !.op = "Print", !.handler = h, !.level = level,
                                !.message = << "Test" >>,
                                !.written = PrintLevel(ConfigOf(h), term, level, << "Test" >>)]
        /\ UNCHANGED <<tree, hist, fs, outVars>>

DoPrintAlreadyAvailable ==
    \E h \in 1..Len(handlers) :
        /\ ret' = [NoRet EXCEPT !.op = "PrintAlreadyAvailable", !.handler = h,
                                !.message = << "Test" >>,
                                !.written = PrintAlreadyAvailable(ConfigOf(h), << "Test" >>)]
        /\ UNCHANGED <<tree, hist, fs, outVars>>

DoPrintProgress ==
    \E h \in 1..Len(handlers), step \in ProgressSteps :
        /\ ret' = [NoRet EXCEPT !.op = "PrintProgress", !.handler = h,
                                !.message = << "Test" >>,
                                !.written = PrintProgress(ConfigOf(h), step[1], step[2],
                                                          << "Test" >>)]
        /\ UNCHANGED <<tree, hist, fs, outVars>>

DoConfirm ==
    \E h \in 1..Len(handlers), response \in Responses :
        LET r == Confirm(ConfigOf(h), << "Test" >>, response)
        IN  /\ ret' = [NoRet EXCEPT !.op = "Confirm", !.handler = h,
                                    !.message = << "Test" >>, !.written = r.written,
                                    !.readInput = r.readInput, !.confirmed = r.confirmed]
            /\ UNCHANGED <<tree, hist, fs, outVars>>

DoIsSupported ==
    \E h \in 1..Len(handlers) :
        /\ ret' = [NoRet EXCEPT !.op = "IsSupported", !.handler = h,
                                !.found = IsSupported(term)]
        /\ UNCHANGED <<tree, hist, fs, outVars>>

\* NewFileSystemStyler().Style(node): the styler takes the configuration of
\* the global handler
DoStyleNode ==
    \E node \in StyledNodes :
        /\ ret' = [NoRet EXCEPT !.op = "StyleNode", !.handler = global,
                                !.data = node.Data,
                                !.useColors = ConfigOf(global).UseColors,
                                !.written = Style(node, ConfigOf(global).UseColors)]
        /\ UNCHANGED <<tree, hist, fs, outVars>>

NextOut ==
    \/ DoNewDefaultOutputHandler
    \/ DoNewOutputHandler
    \/ DoSetGlobalOutputHandler
    \/ DoDisable
    \/ DoFormatMessage
    \/ DoPrint
    \/ DoPrintAlreadyAvailable
    \/ DoPrintProgress
    \/ DoConfirm
    \/ DoIsSupported
    \/ DoStyleNode

SpecOut == InitOut /\ [][NextOut]_vars

(***************************************************************************)
(* Vocabulary of the properties.                                           *)
(***************************************************************************)
NonRoots(t) == 2..Len(t)

IsLastChild(t, n) ==
    LET kids == t[t[n].Parent].Children IN kids[Len(kids)] = n

PosIn(seq, x) == IndexOf(seq, x, 1)

\* the continuation fragments of n's ancestors at depths 1..Depth(n)-1, root to leaf
RECURSIVE AncestorFragments(_, _)
AncestorFragments(t, n) ==
    IF Depth(t, n) <= 1 THEN << >>
    ELSE LET parent == t[n].Parent
         IN  Append(AncestorFragments(t, parent),
                    IF IsLastChild(t, parent) THEN BlankFragment ELSE BarFragment)

StripColors(line) == SelectSeq(line, LAMBDA c : c \notin ColorCodes)

RECURSIVE GlyphIndex(_, _)
GlyphIndex(line, i) ==
    IF i > Len(line) THEN 0
    ELSE IF line[i] \in {TreeCharLast, TreeCharMid} THEN i
    ELSE GlyphIndex(line, i + 1)

LinePrefix(line) == SubSeq(line, 1, GlyphIndex(line, 1) - 1)
LineGlyph(line) == line[GlyphIndex(line, 1)]
LineName(line) == StripColors(line)[GlyphIndex(StripColors(line), 1) + 1]

\* the node the k-th rendered line belongs to
LineNode(t, k) == PreOrder(t, Root(t))[k + 1]

Rendered == ret.op = "Render" /\ ~Suppressed(tree)

(***************************************************************************)
(* C2.  Render prints, before the branch glyph of every non-root node, one *)
(* continuation fragment per ancestor at depths 1..d-1, root to leaf: four *)
(* spaces under a last child, the vertical bar otherwise.                  *)
(***************************************************************************)
C2_PrefixAccumulates ==
    Rendered =>
        \A k \in 1..Len(ret.lines) :
            LinePrefix(ret.lines[k]) = AncestorFragments(tree, LineNode(tree, k))

(***************************************************************************)
(* C3.  An unsuppressed Render writes one line per non-root node, in       *)
(* pre-order, and the glyph of a line is the "last" glyph exactly when the *)
(* node is the final element of its parent's children.                     *)
(***************************************************************************)
C3_OneLinePerNode ==
    Rendered =>
        /\ Len(ret.lines) = Size(tree) - 1
        /\ \A k \in 1..Len(ret.lines) :
              LET n == LineNode(tree, k)
                  line == ret.lines[k]
              IN  /\ n # Root(tree)
                  /\ LineName(line) = tree[n].Data.Name
                  /\ line[Len(line)] = "\n"
                  /\ LineGlyph(line) =
                        (IF IsLastChild(tree, n) THEN TreeCharLast ELSE TreeCharMid)

C3_Witness ==
    /\ Rendered
    /\ Len(ret.lines) = 3
    /\ \E k \in 1..3 : Depth(tree, LineNode(tree, k)) = 2
    /\ \E k \in 1..3 : LineGlyph(ret.lines[k]) = TreeCharMid

(***************************************************************************)
(* C4.  Path round-trip.  As claimed: Find(path) right after a successful  *)
(* Insert(path, payload) finds a node carrying payload.                    *)
(***************************************************************************)
FoundAfterInsert == ret.op = "Find" /\ ret.afterInsert

C4_RoundTripAlways ==
    FoundAfterInsert => (ret.found /\ tree[ret.node].Data = ret.insData)

\* the children of the inserted node's parent that carry its name
SameNamedSiblings(t, n) ==
    { c \in NonRoots(t) : t[c].Parent = t[n].Parent /\ t[c].Name = t[n].Name }

(***************************************************************************)
(* C4, amended.  Find(path) right after a successful Insert(path, payload) *)
(* returns found, and the node is the first child of that name under the   *)
(* node the path's front leads to: it is the new node, with the inserted   *)
(* payload, when no same-named sibling existed there before the Insert.    *)
(***************************************************************************)
C4_RoundTripFresh ==
    FoundAfterInsert =>
        /\ ret.found
        /\ ret.node \in SameNamedSiblings(tree, ret.insNode)
        /\ \A c \in SameNamedSiblings(tree, ret.insNode) :
              PosIn(tree[tree[c].Parent].Children, ret.node)
                  <= PosIn(tree[tree[c].Parent].Children, c)
        /\ SameNamedSiblings(tree, ret.insNode) = {ret.insNode} =>
              (ret.node = ret.insNode /\ tree[ret.node].Data = ret.insData)

C4_Witness ==
    /\ FoundAfterInsert
    /\ Len(ret.path) = 2
    /\ ret.node = ret.insNode
    /\ ret.insData.IsDir

(***************************************************************************)
(* C5.  Find-or-create dedup: after p+[x] and p+[y] (p non-empty, x # y)   *)
(* have been inserted into a tree with only a root, each segment of p has  *)
(* exactly one node at its depth, and the node of p's last segment has     *)
(* exactly the two children x and y.                                       *)
(***************************************************************************)
TwoInsertsSharingPrefix ==
    /\ Len(hist) = 2
    /\ Len(hist[1]) >= 2
    /\ Len(hist[2]) = Len(hist[1])
    /\ Front(hist[1]) = Front(hist[2])
    /\ hist[1] # hist[2]

C5_Dedup ==
    TwoInsertsSharingPrefix =>
        LET p == Front(hist[1])
            x == hist[1][Len(hist[1])]
            y == hist[2][Len(hist[2])]
            last == Find(tree, p).node
        IN  /\ \A d \in 1..Len(p) :
                  Cardinality({ n \in NonRoots(tree) :
                                  Depth(tree, n) = d /\ tree[n].Name = p[d] }) = 1
            /\ Size(tree) = 1 + Len(p) + 2
            /\ last # 0
            /\ Len(tree[last].Children) = 2
            /\ { tree[c].Name : c \in { tree[last].Children[i] : i \in 1..2 } } = {x, y}

C5_Witness ==
    /\ TwoInsertsSharingPrefix
    /\ hist[1] = << "a", "a" >>
    /\ hist[2] = << "a", "b" >>

(***************************************************************************)
(* C7.  Sort stability: two siblings the comparator does not order keep    *)
(* their relative order across a Sort.                                     *)
(***************************************************************************)
Tied(t, u, v) == ~SortFunction(t[u], t[v]) /\ ~SortFunction(t[v], t[u])

C7_SortStable ==
    [][ret'.op = "Sort" =>
         \A u, v \in NonRoots(tree) :
             ( /\ tree[u].Parent = tree[v].Parent
               /\ Tied(tree, u, v)
               /\ PosIn(tree[tree[u].Parent].Children, u)
                    < PosIn(tree[tree[u].Parent].Children, v) )
             => PosIn(tree'[tree[u].Parent].Children, u)
                    < PosIn(tree'[tree[u].Parent].Children, v)]_vars

C10_EmptyPathRejected ==
    [][(ret'.op = "Insert" /\ ret'.path = << >>) =>
         (ret'.err /\ tree' = tree /\ Size(tree') = Size(tree))]_vars

C10_Witness ==
    /\ ret.op = "Insert"
    /\ ret.path = << >>
    /\ ret.err
    /\ Size(tree) = 3

\* the intermediate segments of path that Insert finds no node for
MissingIntermediates(t, path) ==
    Cardinality({ k \in 1..(Len(path) - 1) : ~Find(t, SubSeq(path, 1, k)).found })

IsPrefixOf(a, b) == Len(a) <= Len(b) /\ SubSeq(b, 1, Len(a)) = a

(***************************************************************************)
(* C11.  A successful Insert(path, payload) creates one placeholder node   *)
(* per intermediate segment without a name-matching child and then one new *)
(* final node carrying payload, appended last under its parent, also when  *)
(* a child of that name exists; every earlier node keeps its name, payload *)
(* and parent and only gains children; Size() grows by 1 plus the number   *)
(* of missing intermediates and equals 1 plus the number of nodes created. *)
(***************************************************************************)
C11_InsertGrowsSize ==
    [][(ret'.op = "Insert" /\ ~ret'.err) =>
         LET path == ret'.path
             m == MissingIntermediates(tree, path)
             new == Len(tree')
         IN  /\ Len(tree') = Len(tree) + 1 + m
             /\ Size(tree') = Size(tree) + 1 + m
             /\ Size(tree') = Len(tree')
             /\ tree'[new].Data = ret'.data
             /\ tree'[new].Name = path[Len(path)]
             /\ tree'[new].Children = << >>
             /\ tree'[new].Parent = Find(tree', Front(path)).node
             /\ IsLastChild(tree', new)
             /\ \A n \in (Len(tree) + 1)..(new - 1) :
                   /\ tree'[n].Data = ZeroFileNode
                   /\ Len(tree'[n].Children) = 1
             /\ \A n \in 1..Len(tree) :
                   /\ tree'[n].Data = tree[n].Data
                   /\ tree'[n].Name = tree[n].Name
                   /\ tree'[n].Parent = tree[n].Parent
                   /\ IsPrefixOf(tree[n].Children, tree'[n].Children)]_vars

\* the same path inserted twice, with different payloads: both nodes are there
C11_Witness ==
    /\ ret.op = "Insert"
    /\ ~ret.err
    /\ hist = << << "a", "b" >>, << "a", "b" >> >>
    /\ Size(tree) = 4
    /\ tree[3].Name = "b"
    /\ tree[4].Name = "b"
    /\ tree[3].Data # tree[4].Data

RECURSIVE ProperAncestors(_, _)
ProperAncestors(t, n) ==
    IF t[n].Parent = 0 THEN {}
    ELSE {t[n].Parent} \cup ProperAncestors(t, t[n].Parent)

InSubtree(t, u, d) == u = d \/ u \in ProperAncestors(t, d)

Traversed == ret.op = "Traverse"

(***************************************************************************)
(* C12.  Traverse calls the visitor first with the root, never twice with  *)
(* the same node, and with exactly the nodes all of whose proper ancestors *)
(* the visitor returned true for: a parent before its children, and the    *)
(* visited nodes of a child's subtree before every later sibling.  With a  *)
(* visitor that always returns true every node is visited exactly once.    *)
(***************************************************************************)
C12_TraversePreOrder ==
    Traversed =>
        LET v == ret.visited
            Visited == { v[i] : i \in 1..Len(v) }
        IN  /\ v[1] = Root(tree)
            /\ \A i, j \in 1..Len(v) : v[i] = v[j] => i = j
            /\ Visited = { n \in 1..Len(tree) :
                             \A a \in ProperAncestors(tree, n) : ret.visitor[a] }
            /\ \A n \in Visited \ {Root(tree)} : PosIn(v, tree[n].Parent) < PosIn(v, n)
            /\ \A u, w \in Visited \ {Root(tree)} :
                  ( /\ tree[u].Parent = tree[w].Parent
                    /\ PosIn(tree[tree[u].Parent].Children, u)
                         < PosIn(tree[tree[u].Parent].Children, w) )
                  => \A d \in Visited : InSubtree(tree, u, d) => PosIn(v, d) < PosIn(v, w)
            /\ (\A n \in 1..Len(tree) : ret.visitor[n]) => Len(v) = Len(tree)

\* the visitor returned false on a node with a child and a following sibling
C12_Witness ==
    /\ Traversed
    /\ \E p \in NonRoots(tree) :
          /\ ~ret.visitor[p]
          /\ Len(tree[p].Children) > 0
          /\ PosIn(ret.visited, p) > 0
          /\ ~IsLastChild(tree, p)
          /\ Len(ret.visited) = 3

(***************************************************************************)
(* Properties of the filesystem builder, checked under SpecFS.             *)
(***************************************************************************)
DirAExample ==
    (<< "dirA" >> :> TRUE) @@ (<< "dirA", "file1.txt" >> :> FALSE)
        @@ (<< "dirA", "file2.txt" >> :> FALSE) @@ (<< "file3.txt" >> :> FALSE)

RenderedPlain == [k \in 1..Len(ret.lines) |-> StripColors(ret.lines[k])]

(***************************************************************************)
(* C1.  The tree built from dirA/file1.txt, dirA/file2.txt and file3.txt   *)
(* renders, colour codes aside, as the four lines                          *)
(*     |-- dirA / |   |-- file1.txt / |   +-- file2.txt / +-- file3.txt    *)
(***************************************************************************)
C1_DirAExampleLines ==
    (fs = DirAExample /\ ret.op = "Render" /\ tree[Root(tree)].Name = TempDirName) =>
        RenderedPlain =
            << << TreeCharMid, "dirA", "\n" >>,
               << BarFragment, TreeCharMid, "file1.txt", "\n" >>,
               << BarFragment, TreeCharLast, "file2.txt", "\n" >>,
               << TreeCharLast, "file3.txt", "\n" >> >>

(***************************************************************************)
(* C6.  Sort invariant: in the tree Build returns, and after a further     *)
(* Sort, every children list has its directories before its other entries *)
(* and, within each of the two groups, names in non-decreasing order.      *)
(***************************************************************************)
C6_SortInvariant ==
    tree # << >> =>
        \A n \in 1..Len(tree) :
            LET kids == tree[n].Children
            IN  \A i, j \in 1..Len(kids) :
                    i < j =>
                        /\ tree[kids[j]].Data.IsDir => tree[kids[i]].Data.IsDir
                        /\ tree[kids[i]].Data.IsDir = tree[kids[j]].Data.IsDir
                              => ~StrLess(tree[kids[j]].Name, tree[kids[i]].Name)

\* the walk met the regular file dirA before the directory file1.txt
C6_Witness ==
    /\ ret.op = "Build"
    /\ ~ret.err
    /\ ret.source = << >>
    /\ Len(tree[Root(tree)].Children) = 4
    /\ tree[tree[Root(tree)].Children[1]].Name = "file1.txt"
    /\ tree[tree[Root(tree)].Children[1]].Data.IsDir
    /\ tree[tree[Root(tree)].Children[2]].Name = "dirA"
    /\ ~tree[tree[Root(tree)].Children[2]].Data.IsDir

\* the entries directly in dir whose names do not start with a dot
VisibleEntries(fsys, dir) ==
    { p \in DOMAIN fsys : Front(p) = dir /\ ~HasDotPrefix(Base(p)) }

OnlyOneRegularFile(fsys, dir) ==
    /\ IsDirAt(fsys, dir)
    /\ Cardinality(VisibleEntries(fsys, dir)) = 1
    /\ \A p \in VisibleEntries(fsys, dir) : ~fsys[p]

(***************************************************************************)
(* C9.  Single-file suppression: ShowHierarchy on a directory whose only   *)
(* non-hidden entry is one regular file returns no error and               *)
(* hasHierarchy = false, and writes no line.                               *)
(***************************************************************************)
C9_SingleFileSuppressed ==
    (ret.op = "ShowHierarchy" /\ OnlyOneRegularFile(fs, ret.source)) =>
        (~ret.err /\ ~ret.hasHierarchy /\ ret.lines = << >>)

C9_Witness ==
    /\ ret.op = "ShowHierarchy"
    /\ ret.source = << >>
    /\ OnlyOneRegularFile(fs, ret.source)
    /\ << ".hidden", "file1.txt" >> \in DOMAIN fs
    /\ ~ret.hasHierarchy

Built == ret.op = "Build" /\ ~ret.err

\* the filesystem entry a node of the built tree stands for
EntryOf(t, source, n) == source \o Tail(Path(t, n))

\* the entries below source with no dot-name on the way down from source
ShownBelow(fsys, source) ==
    { p \in DOMAIN fsys :
        /\ IsPrefixOf(source, p)
        /\ p # source
        /\ \A k \in (Len(source) + 1)..Len(p) : ~HasDotPrefix(p[k]) }

(***************************************************************************)
(* C13.  Hidden-entry exclusion, as claimed: the tree Build returns has no *)
(* node whose name starts with a dot and no node for an entry beneath a    *)
(* directory whose name starts with a dot; every other entry below the     *)
(* root has exactly one node.                                              *)
(***************************************************************************)
C13_NoHiddenAnywhere ==
    Built =>
        /\ \A n \in 1..Len(tree) : ~HasDotPrefix(tree[n].Name)
        /\ \A n \in NonRoots(tree) :
              \A k \in 1..Len(EntryOf(tree, ret.source, n)) :
                  ~HasDotPrefix(EntryOf(tree, ret.source, n)[k])
        /\ \A p \in ShownBelow(fs, ret.source) :
              Cardinality({ n \in NonRoots(tree) : EntryOf(tree, ret.source, n) = p }) = 1

(***************************************************************************)
(* C13, amended.  Below the root, the tree Build returns has no node whose *)
(* name starts with a dot and no node for an entry beneath a directory,    *)
(* below the root, whose name starts with a dot; every other entry below   *)
(* the root has exactly one node.  The root is the source itself, whatever *)
(* its name.                                                               *)
(***************************************************************************)
C13_HiddenExcludedBelowRoot ==
    Built =>
        /\ \A n \in NonRoots(tree) : ~HasDotPrefix(tree[n].Name)
        /\ \A n \in NonRoots(tree) : EntryOf(tree, ret.source, n) \in ShownBelow(fs, ret.source)
        /\ \A p \in ShownBelow(fs, ret.source) :
              Cardinality({ n \in NonRoots(tree) : EntryOf(tree, ret.source, n) = p }) = 1
        /\ tree[Root(tree)].Name = Base(ret.source)

\* a hidden directory with a file in it, a hidden file and a visible entry
C13_Witness ==
    /\ Built
    /\ ret.source = << >>
    /\ << ".hidden", "file1.txt" >> \in DOMAIN fs
    /\ << "dirA" >> \in DOMAIN fs
    /\ << "dirA", ".hidden" >> \in DOMAIN fs
    /\ Len(tree) = 2

\* the path arguments the tests call invalid
InvalidPath(fsys, arg) ==
    \/ arg = RelPath(<< >>)
    \/ \E k \in 1..Len(arg.segs) : arg.segs[k] = NulName
    \/ arg.abs /\ ~Exists(fsys, arg.segs)

(***************************************************************************)
(* C15.  ShowHierarchy returns an error and hasHierarchy = false for the   *)
(* empty string, for a path that does not exist and for a path with a NUL  *)
(* character.                                                              *)
(***************************************************************************)
C15_InvalidPathRejected ==
    (ret.op = "ShowHierarchy" /\ InvalidPath(fs, ret.arg)) =>
        (ret.err /\ ~ret.hasHierarchy)

\* no directory the walk from source reads is unreadable
WalkReadable(fsys, source) ==
    /\ ~Unreadable(fsys, source)
    /\ \A p \in ShownBelow(fsys, source) : ~Unreadable(fsys, p)

BuildMustFail(fsys, source) == ~Exists(fsys, source) \/ ~WalkReadable(fsys, source)

(***************************************************************************)
(* C14.  All-or-nothing builds: the filesystem Build returns an error      *)
(* exactly when the path cannot be stat'ed or the walk meets a directory   *)
(* it cannot read, and ParseYAMLToTree exactly when the bytes do not       *)
(* parse; a call that returns an error returns the nil tree, whatever it   *)
(* had built, a call that returns no error returns a tree; the failed      *)
(* parse has constructed no node.                                          *)
(***************************************************************************)
C14_AllOrNothing ==
    /\ ret.op = "Build" =>
          /\ ret.err <=> BuildMustFail(fs, ret.source)
          /\ ret.err <=> tree = << >>
    /\ ret.op = "ParseYAML" =>
          /\ ret.err <=> ~ret.content.ok
          /\ ret.err <=> ret.root = << >>
          /\ ret.err => ret.built = 0

\* the walk had inserted dirA, its file and the unreadable directory when it failed
C14_Witness ==
    /\ ret.op = "Build"
    /\ ret.err
    /\ Exists(fs, ret.source)
    /\ ret.built = 4
    /\ tree = << >>

Parsed == ret.op = "ParseYAML" /\ ~ret.err

(***************************************************************************)
(* C17.  For every parsed document (mapping, sequence, scalar, null) the   *)
(* root ParseYAMLToTree returns is named "root", has kind object and is a  *)
(* container.                                                              *)
(***************************************************************************)
C17_RootIsObjectContainer ==
    Parsed =>
        /\ ret.root[1].Name = "root"
        /\ ret.root[1].Data.NodeType = "object"
        /\ ret.root[1].Data.IsDir

(***************************************************************************)
(* C18.  In a document tree every node below the root that is built from   *)
(* a mapping value is a container of kind object, every node built from a  *)
(* sequence value is a container of kind array, and every node that has    *)
(* children is a container.                                                *)
(***************************************************************************)
C18_ContainerKinds ==
    Parsed =>
        \A n \in 2..Len(ret.root) :
            LET d == ret.root[n].Data
            IN  /\ d.Value.kind = "mapping" => (d.IsDir /\ d.NodeType = "object")
                /\ d.Value.kind = "sequence" => (d.IsDir /\ d.NodeType = "array")
                /\ Len(ret.root[n].Children) > 0 => d.IsDir

\* the textual form of a string, a number or a boolean
TextualForm(v) ==
    CASE v.kind = "string" -> v.str
      [] v.kind = "int" /\ v.num = 42 -> "42"
      [] v.kind = "float" /\ v.num = 15 -> "1.5"
      [] v.kind = "bool" -> IF v.bool THEN "true" ELSE "false"

StripLines(lines) == [k \in 1..Len(lines) |-> StripColors(lines[k])]

(***************************************************************************)
(* C20.  Color independence of the tree shape: the lines rendered with     *)
(* colors disabled contain no escape sequence and are prefix fragments,    *)
(* glyph, plain name and newline; they equal the lines rendered with       *)
(* colors enabled once the escape sequences are removed, so prefix and     *)
(* glyph are the same under both settings.                                 *)
(***************************************************************************)
C20_ColorIndependent ==
    (ret.op = "Render" /\ tree # << >>) =>
        LET plain == Render(tree, FALSE)
            colored == Render(tree, TRUE)
            other == Render(tree, ~ret.useColors)
        IN  /\ StripLines(ret.lines) = StripLines(other)
            /\ StripLines(colored) = plain
            /\ \A k \in 1..Len(plain) :
                  /\ \A i \in 1..Len(plain[k]) : plain[k][i] \notin ColorCodes
                  /\ LinePrefix(plain[k]) = LinePrefix(colored[k])
                  /\ LineGlyph(plain[k]) = LineGlyph(colored[k])
                  /\ \A i \in 1..Len(LinePrefix(plain[k])) :
                        plain[k][i] \in {BlankFragment, BarFragment}
                  /\ plain[k] = LinePrefix(plain[k]) \o << LineGlyph(plain[k]) >>
                                   \o << tree[LineNode(tree, k)].Data.Name >> \o << "\n" >>
            /\ ~ret.useColors => ret.lines = plain

\* a plain rendering of a tree whose colored rendering wraps a directory and a
\* text file in escape sequences
C20_Witness ==
    /\ ret.op = "Render"
    /\ ~ret.useColors
    /\ Len(ret.lines) >= 3
    /\ \E k \in 1..Len(ret.lines) : Len(LinePrefix(ret.lines[k])) > 0
    /\ \E k \in 1..Len(ret.lines) :
          \E i \in 1..Len(Render(tree, TRUE)[k]) : Render(tree, TRUE)[k][i] = ColorBlue
    /\ \E k \in 1..Len(ret.lines) :
          \E i \in 1..Len(Render(tree, TRUE)[k]) : Render(tree, TRUE)[k][i] = ColorCyan

Styled == ret.op = "Style" /\ ret.useColors

StyledName == tree[ret.node].Data.Name

HasEscape(chunks) == \E i \in 1..Len(chunks) : chunks[i] \in ColorCodes

ExtensionTable == JsonExts \cup TextExts \cup ShellExts \cup GoExts

InTable(name) == ToLower(Ext(name)) \in ExtensionTable

\* the colour of each group of the table
TableColor(name) ==
    CASE ToLower(Ext(name)) \in JsonExts -> ColorGreen
      [] ToLower(Ext(name)) \in TextExts -> ColorCyan
      [] ToLower(Ext(name)) \in ShellExts -> ColorYellow
      [] OTHER -> ColorPurple

(***************************************************************************)
(* C21, as stated.  With colors enabled the styled name holds escape       *)
(* sequences exactly when the node is a directory or its lower-cased       *)
(* extension is in the table; a file with another extension, without       *)
(* extension, or whose name starts with a dot is returned as the plain     *)
(* name; the plain name is always part of the result.                      *)
(***************************************************************************)
C21_DotFilesPlain ==
    Styled =>
        LET n == tree[ret.node]
            out == ret.lines[1]
        IN  /\ HasEscape(out) <=> (n.Data.IsDir \/ InTable(StyledName))
            /\ (~n.Data.IsDir /\ (~InTable(StyledName) \/ HasDotPrefix(StyledName)))
                  => out = << StyledName >>
            /\ \E i \in 1..Len(out) : out[i] = StyledName

(***************************************************************************)
(* C21.  With colors enabled the styled name is bold, blue, name, reset    *)
(* for a directory; colour of the group, name, reset for a file whose      *)
(* lower-cased extension (the suffix from the last dot, which for a name   *)
(* with a single leading dot is the whole name) is in the table; and the   *)
(* plain name otherwise.  A dot-file is plain exactly when that suffix is  *)
(* not in the table.  The plain name is always part of the result.         *)
(***************************************************************************)
C21_StyleByExtension ==
    Styled =>
        LET n == tree[ret.node]
            out == ret.lines[1]
        IN  /\ HasEscape(out) <=> (n.Data.IsDir \/ InTable(StyledName))
            /\ n.Data.IsDir => out = << ColorBold, ColorBlue, StyledName, ColorReset >>
            /\ (~n.Data.IsDir /\ InTable(StyledName))
                  => out = << TableColor(StyledName), StyledName, ColorReset >>
            /\ (~n.Data.IsDir /\ ~InTable(StyledName)) => out = << StyledName >>
            /\ \E i \in 1..Len(out) : out[i] = StyledName

\* a file with an upper-case extension of the table has been styled with colors
C21_Witness ==
    /\ Styled
    /\ ~tree[ret.node].Data.IsDir
    /\ StyledName = "DATA.JSON"
    /\ ret.lines[1] = << ColorGreen, "DATA.JSON", ColorReset >>

\* a node that has children, or whose payload says it may have some
IsContainer(t, n) == t[n].Children # << >> \/ t[n].Data.IsDir

(***************************************************************************)
(* C25.  Render writes nothing for a tree with nodes below the root only   *)
(* when the root has exactly one child and that child is not a container   *)
(* (it has no children and its payload is not a directory); when the root  *)
(* has one container child, or two or more children, Render writes one     *)
(* line per non-root node.                                                 *)
(***************************************************************************)
C25_SuppressOnlyLoneLeaf ==
    ret.op = "Render" =>
        LET kids == tree[Root(tree)].Children
        IN  /\ (Len(kids) >= 2 \/ (Len(kids) = 1 /\ IsContainer(tree, kids[1])))
                  => Len(ret.lines) = Len(tree) - 1
            /\ (ret.lines = << >> /\ Len(tree) > 1)
                  => (Len(kids) = 1 /\ ~IsContainer(tree, kids[1]))

\* how many children lists hold n, counted with repetition
Occurrences(t, n) ==
    LET holds == { <<p, i>> \in (1..Len(t)) \X (1..Len(t)) :
                      i <= Len(t[p].Children) /\ t[p].Children[i] = n }
    IN  Cardinality(holds)

\* the Parent chain of n reaches a node without parent within steps hops
RECURSIVE ReachesRoot(_, _, _)
ReachesRoot(t, n, steps) ==
    IF t[n].Parent = 0 THEN n = Root(t)
    ELSE steps > 0 /\ ReachesRoot(t, t[n].Parent, steps - 1)

WellFormed(t) ==
    /\ t[Root(t)].Parent = 0
    /\ Occurrences(t, Root(t)) = 0
    /\ \A n \in NonRoots(t) :
          /\ Occurrences(t, n) = 1
          /\ t[n].Parent \in 1..Len(t)
          /\ \E i \in 1..Len(t[t[n].Parent].Children) : t[t[n].Parent].Children[i] = n
          /\ ReachesRoot(t, n, Len(t))

\* t2 has the nodes, payloads and parents of t1, each children list rearranged
OnlyPermutes(t1, t2) ==
    /\ Len(t2) = Len(t1)
    /\ \A n \in 1..Len(t1) :
          /\ t2[n].Data = t1[n].Data
          /\ t2[n].Name = t1[n].Name
          /\ t2[n].Parent = t1[n].Parent
          /\ t2[n].Children \in Rearrangements(t1[n].Children)
    /\ Size(t2) = Size(t1)

(***************************************************************************)
(* C26.  After every Insert and every Sort the structure is a tree: the    *)
(* root has no parent, every other node is in exactly one children list    *)
(* exactly once, that list is the one of its Parent, and every Parent      *)
(* chain ends at the root; Sort only rearranges each children list and     *)
(* keeps the nodes, their payloads, their parents and Size().              *)
(***************************************************************************)
C26_StaysATree ==
    [][ /\ WellFormed(tree')
        /\ Size(tree') = Len(tree')
        /\ ret'.op = "Sort" => OnlyPermutes(tree, tree') ]_vars

\* a Sort has moved a later-inserted sibling before an earlier one, below the root's child
C26_Witness ==
    /\ ret.op = "Sort"
    /\ Len(tree) >= 4
    /\ \E n \in NonRoots(tree) :
          /\ Len(tree[n].Children) = 2
          /\ tree[n].Children[1] > tree[n].Children[2]

\* the nodes of a tree in pre-order, each as its names from the root down and
\* its payload's IsDir, read through the children lists only
RECURSIVE OutlineFrom(_, _, _)
RECURSIVE OutlineKids(_, _, _, _)
OutlineFrom(t, n, above) ==
    << [names |-> Append(above, t[n].Name), isDir |-> t[n].Data.IsDir] >>
        \o OutlineKids(t, t[n].Children, 1, Append(above, t[n].Name))
OutlineKids(t, kids, i, above) ==
    IF i > Len(kids) THEN << >>
    ELSE OutlineFrom(t, kids[i], above) \o OutlineKids(t, kids, i + 1, above)

Outline(t) == OutlineFrom(t, 1, << >>)

OutlineSet(t) == { Outline(t)[k] : k \in 1..Len(Outline(t)) }

\* what the generic builder has when its walk ends, before Build sorts it
GenericWalked(fsys, source) ==
    buildTreeRecursive(fsys,
        NewTree(NewFileNode(Base(source), IsDirAt(fsys, source)), Base(source)), source)

(***************************************************************************)
(* C27.  On every walk of the model (directories before their entries,     *)
(* sibling names unique, hidden entries skipped) the generic builder and   *)
(* the legacy buildTree end the walk with the same nodes in the same       *)
(* order, under the same parents, with the same IsDir flags, and with the  *)
(* same error; the generic tree holds no node with the zero-value payload  *)
(* and every node's Name is its payload's Name; the tree Build returns     *)
(* has the parent-child relation of the legacy tree.                       *)
(***************************************************************************)
C27_BuildersAgree ==
    (ret.op = "Build" /\ Exists(fs, ret.source)) =>
        LET g == GenericWalked(fs, ret.source)
            l == buildTree(fs, ret.source)
        IN  /\ Outline(g.tree) = Outline(l.tree)
            /\ Len(g.tree) = Len(l.tree)
            /\ g.err = l.err
            /\ \A n \in 1..Len(g.tree) :
                  /\ g.tree[n].Data # ZeroFileNode
                  /\ g.tree[n].Name = g.tree[n].Data.Name
            /\ ~ret.err => /\ OutlineSet(tree) = OutlineSet(l.tree)
                           /\ Len(tree) = Len(l.tree)
                           /\ \A n \in 1..Len(tree) : tree[n].Name = tree[n].Data.Name

\* a Build has returned a tree with a file two levels down, next to a skipped hidden entry
C27_Witness ==
    /\ Built
    /\ \E n \in NonRoots(tree) : Depth(tree, n) = 2 /\ ~tree[n].Data.IsDir
    /\ \E p \in DOMAIN fs : IsPrefixOf(ret.source, p) /\ p # ret.source /\ HasDotPrefix(Base(p))

\* the operations that produce text, and the text of the last one
TextOps ==
    {"FormatMessage", "Print", "PrintAlreadyAvailable", "PrintProgress", "Confirm"}

Text(r) == IF r.op = "FormatMessage" THEN r.lines[1] ELSE r.written

\* the last call wrote nothing, returned nothing and read nothing
SilentCall(r) ==
    /\ r.op \in TextOps => Text(r) = << >>
    /\ r.op = "Confirm" => (~r.readInput /\ ~r.confirmed)

C23_MatchesReference ==
    (ret.op = "FormatMessage" /\ ~ConfigOf(ret.handler).ColorizeLevelOnly) =>
        LET c == ConfigOf(ret.handler)
        IN  /\ Text(ret) = generateExpectedOutput(ret.level, ret.message, c, term)
            /\ c.DisableOutput => Text(ret) = << >>
            /\ (~c.DisableOutput /\ term = "dumb") => Text(ret) = ret.message

\* a warning formatted with colors and emojis on but formatting off: the text tag, unwrapped
C23_Witness ==
    /\ ret.op = "FormatMessage"
    /\ ret.level = LevelWarning
    /\ term # "dumb"
    /\ ConfigOf(ret.handler) = OutputConfig(TRUE, TRUE, FALSE, FALSE, FALSE, FALSE)
    /\ Text(ret) = << "[WARNING] ", "Test", "\n" >>

\* the escape sequence in force at position i: the last colour code before i
\* is not the reset
RECURSIVE InsideEscape(_, _)
InsideEscape(chunks, i) ==
    IF i <= 1 THEN FALSE
    ELSE IF chunks[i - 1] \in ColorCodes THEN chunks[i - 1] # ColorReset
    ELSE InsideEscape(chunks, i - 1)

(***************************************************************************)
(* C24.  With ColorizeLevelOnly, colors and formatting on, for every level *)
(* the message text of FormatMessage and of the Print methods, and of      *)
(* PrintAlreadyAvailable and PrintProgress, stands outside every escape    *)
(* sequence: only the level prefix is between bold/color and reset.        *)
(***************************************************************************)
C24_MessageOutsideEscapes ==
    LET c == ConfigOf(ret.handler)
    IN  (/\ ret.op \in {"FormatMessage", "Print", "PrintAlreadyAvailable", "PrintProgress"}
         /\ c.ColorizeLevelOnly /\ c.UseColors /\ c.UseFormatting /\ ~c.DisableOutput)
        => \A i \in 1..Len(Text(ret)) :
              Text(ret)[i] = "Test" => ~InsideEscape(Text(ret), i)

NoEscapeNoEmoji(chunks) ==
    \A i \in 1..Len(chunks) : chunks[i] \notin ColorCodes \cup Emojis

(***************************************************************************)
(* C28.  When UseColors is false, whatever UseEmojis, UseFormatting and    *)
(* ColorizeLevelOnly are, the text of FormatMessage, of the Print methods, *)
(* of PrintAlreadyAvailable, of PrintProgress, of the Confirm prompt and   *)
(* of the tree styler holds no escape sequence and no emoji.               *)
(***************************************************************************)
C28_PlainWithoutColors ==
    (ret.op \in TextOps \cup {"StyleNode"} /\ ~ConfigOf(ret.handler).UseColors)
        => NoEscapeNoEmoji(Text(ret))

\* PrintAlreadyAvailable with emojis and formatting on but colors off wrote the text tag
C28_Witness ==
    /\ ret.op = "PrintAlreadyAvailable"
    /\ ConfigOf(ret.handler) = OutputConfig(FALSE, TRUE, TRUE, FALSE, FALSE, TRUE)
    /\ ret.written = << "[AVAILABLE] ", "Test", "\n" >>

(***************************************************************************)
(* C29.  On an unsupported terminal (TERM=dumb) no operation of a handler  *)
(* emits an escape sequence or an emoji, whatever the configuration: the   *)
(* Print methods, FormatMessage, PrintAlreadyAvailable, PrintProgress and  *)
(* the Confirm prompt.                                                     *)
(***************************************************************************)
C29_PlainOnDumbTerminal ==
    (ret.op \in TextOps /\ ~IsSupported(term)) => NoEscapeNoEmoji(Text(ret))

(***************************************************************************)
(* C30.  Disable() on a handler changes the configuration of no other      *)
(* handler, the global handler and a handler made by NewOutputHandler from *)
(* the same OutputConfig included, and leaves every OutputConfig the       *)
(* caller holds as it was.                                                 *)
(***************************************************************************)
C30_DisableIsLocal ==
    [][ ret'.op = "Disable" =>
          /\ \A h \in 1..Len(handlers) :
                h # ret'.handler => configs'[handlers'[h]] = ConfigOf(h)
          /\ \A p \in held : configs'[p] = configs[p] ]_vars

=============================================================================
